---- MODULE Spec2Model ----
(***************************************************************************)
(* Local LLM health-advice evaluator: the Model Client (llm_handler.py),   *)
(* the single-run streaming evaluator and the batch evaluator (app.py).    *)
(*                                                                         *)
(* Text is a sequence of tokens.  The characters of the error prefix are   *)
(* single-character tokens, so that "starts with", "contains" and a prefix *)
(* split over two fragments are distinguishable; any other token stands    *)
(* for a run of characters that holds no part of the prefix.               *)
(***************************************************************************)
EXTENDS Integers, Sequences, FiniteSets, TLC

\* ------------------------------------------------------------------ bounds
MaxModels == 2
MaxScenarios == 2
MaxChunks == 3

\* -------------------------------------------------------------------- text
ERROR_MARK == <<"E", "R", "R", "O", "R", ":">>

EmptyText == << >>

\* Python: text.startswith(prefix)
StartsWith(text, prefix) ==
    /\ Len(text) >= Len(prefix)
    /\ SubSeq(text, 1, Len(prefix)) = prefix

\* Python: needle in text
Contains(text, needle) ==
    \E i \in 1..(Len(text) - Len(needle) + 1) :
        SubSeq(text, i, i + Len(needle) - 1) = needle

RECURSIVE Concat(_)
Concat(seqs) ==
    IF seqs = << >> THEN << >> ELSE Head(seqs) \o Concat(Tail(seqs))

\* ---------------------------------------------------------------- catalogs
\* config.py: display name -> backend model identifier
LLM_MODELS_FOR_TESTING ==
    [n \in {"Qwen (Latest Version)", "DeepSeek", "Qwen 0.5B"} |->
        CASE n = "Qwen (Latest Version)" -> "qwen:latest"
          [] n = "DeepSeek" -> "deepseek-r1:1.5b"
          [] n = "Qwen 0.5B" -> "qwen:0.5b"]

\* config.py: the scenario_name of every profile of HEALTH_PROFILES, in order
HEALTH_PROFILES ==
    << "General Wellness Seeker", "Diabetic with Heart Concerns",
       "Young Adult with Family History", "Elderly with Arthritis" >>

NoProfile == "<None>"

\* next((p for p in HEALTH_PROFILES if p['scenario_name'] == scenario_name), None)
FindProfile(scenario_name) ==
    IF \E i \in 1..Len(HEALTH_PROFILES) : HEALTH_PROFILES[i] = scenario_name
    THEN scenario_name
    ELSE NoProfile

\* build_prompts: [system message, user message]; the user message is the
\* profile's interpolation, identified here by the profile it is built from
build_prompts(selected_profile) ==
    << [role |-> "system", content |-> "system_prompt"],
       [role |-> "user", content |-> selected_profile] >>

\* ------------------------------------------------------ readability scorer
None == [defined |-> FALSE]

flesch_reading_ease(text) == [defined |-> TRUE, metric |-> "ease", of |-> text]

flesch_kincaid_grade(text) == [defined |-> TRUE, metric |-> "grade", of |-> text]

\* ------------------------------------------------------------ model client
\* What ollama.chat can do, as seen by llm_handler.py
PlainText == <<"Eat well. ">>
MarkHead == <<"E", "R", "R">>
MarkTail == <<"O", "R", ":">>
MarkedText == ERROR_MARK \o <<" model said so">>
TextWithMark == <<"Note ">> \o ERROR_MARK \o <<" is a log level.">>

\* content a model can reply with in one blocking response
BlockContents == {EmptyText, PlainText, MarkedText, TextWithMark}

\* content a model can stream in one chunk
ChunkContents ==
    {EmptyText, PlainText, MarkHead, MarkTail, MarkedText, TextWithMark}

\* elapsed wall-clock time (a binary double), in ticks of 1/1024 second:
\* 1152 ticks = 1.125 s, 4 ticks = 0.00390625 s
SlowTicks == 1152
FastTicks == 4

\* the outcomes of a blocking ollama.chat(...)
BlockReplies ==
    {[kind |-> "content", content |-> c, ticks |-> SlowTicks] : c \in BlockContents}
    \cup {[kind |-> "error", ticks |-> SlowTicks],
          [kind |-> "malformed", ticks |-> SlowTicks],
          [kind |-> "ResponseError", ticks |-> SlowTicks],
          [kind |-> "Exception", ticks |-> FastTicks]}

\* get_ollama_response_non_stream: the advice text for an outcome of ollama.chat
NonStreamText(model_name, reply) ==
    CASE reply.kind = "content" -> reply.content
      [] reply.kind = "error" ->
            ERROR_MARK \o <<" Ollama error for model '", model_name, "'. Details: ", "error">>
      [] reply.kind = "malformed" ->
            ERROR_MARK \o <<" Unknown response format from Ollama.">>
      [] reply.kind = "ResponseError" ->
            ERROR_MARK \o <<" Ollama response error for model '", model_name, "'. Details: ", "e.error">>
      [] reply.kind = "Exception" ->
            ERROR_MARK \o <<" Could not connect to the Ollama server. Details: ", "e">>

\* get_ollama_response_non_stream: (advice_text, response_time)
get_ollama_response_non_stream(model_name, reply) ==
    [advice_text |-> NonStreamText(model_name, reply), response_time |-> reply.ticks]

\* float(f"{response_time:.2f}"): the exact value of the double, ticks / 1024
\* seconds, correctly rounded to hundredths of a second, a tie going to the
\* even hundredth (1.125 -> 1.12, 0.375 -> 0.38)
Round2(ticks) ==
    LET q == (ticks * 100) \div 1024
        r == (ticks * 100) % 1024
    IN  IF r > 512 \/ (r = 512 /\ q % 2 = 1) THEN q + 1 ELSE q

\* ------------------------------------------------------------------- state
VARIABLES
    mode,                \* which evaluator the UI event runs: "batch" or "single"
    \* batch_evaluate
    model_display_names, \* its first argument
    scenario_names,      \* its second argument
    bpc,                 \* "idle", "loop", "calling" (blocked in the Model Client),
                         \* "returned", "fault" (unhandled KeyError)
    pair_index,          \* number of evaluation pairs the loop has taken
    results,             \* the rows appended so far
    batch_status,        \* the status message returned with the table
    viz_visible,         \* gr.update(visible=...) returned with the table
    client_calls,        \* blocking Model Client calls: pair, model id, messages, outcome
                         \* (Pending while the call is in flight)
    cancel_at,           \* when Cancel was clicked: pairs taken and whether a call was
                         \* in flight; NotCancelled before
    \* generate_and_evaluate_stream
    model_display_name,  \* its first argument
    scenario_name,       \* its second argument
    spc,                 \* "start", "awaiting", "streaming", "done", "failed", "fault"
    advice_text,         \* the accumulating response buffer
    snapshots,           \* the 4-tuples yielded so far
    gen,                 \* get_ollama_response generator: "unstarted", "open", "closed"
    chunks,              \* what the backend stream delivered so far
    frags,               \* the fragments get_ollama_response yielded so far
    consumed,            \* number of fragments the evaluator's loop has read
    dispatched,          \* streaming requests sent to ollama.chat
    \* both
    scorer_calls         \* the texts the Readability Scorer was invoked on

batch_vars ==
    << model_display_names, scenario_names, bpc, pair_index, results,
       batch_status, viz_visible, client_calls, cancel_at >>

single_vars ==
    << model_display_name, scenario_name, spc, advice_text, snapshots,
       gen, chunks, frags, consumed, dispatched >>

vars == << mode, batch_vars, single_vars, scorer_calls >>

\* ------------------------------------------------------------------ inputs
\* "Llama 3 8B" is not a key of LLM_MODELS_FOR_TESTING
ModelNamePool == {"Qwen (Latest Version)", "DeepSeek", "Llama 3 8B"}

\* "Pregnancy Nutrition" is not a scenario_name of HEALTH_PROFILES
ScenarioNamePool ==
    {"General Wellness Seeker", "Elderly with Arthritis", "Pregnancy Nutrition"}

\* a CheckboxGroup value: names in selection order, none repeated
Selections(pool, max) ==
    {s \in UNION {[1..n -> pool] : n \in 0..max} :
        \A i, j \in 1..Len(s) : i # j => s[i] # s[j]}

NotCancelled == [taken |-> -1, in_flight |-> FALSE]

\* --------------------------------------------------------- batch_evaluate
\* itertools.product(model_display_names, scenario_names)
\* Product with the scenario list as the outer loop
ProductScenarioOuter(ms, ss) ==
    [k \in 1..(Len(ms) * Len(ss)) |->
        <<ms[((k - 1) % Len(ms)) + 1], ss[((k - 1) \div Len(ms)) + 1]>>]

RECURSIVE Product(_, _)
Product(ms, ss) ==
    IF ms = << >> THEN << >>
    ELSE [j \in 1..Len(ss) |-> <<Head(ms), ss[j]>>] \o Product(Tail(ms), ss)

evaluation_pairs == Product(model_display_names, scenario_names)

\* SentinelRow for a lookup failure that goes on to time the pair
SentinelRowTimed(model_name, scen_name) ==
    [Model |-> model_name, Scenario |-> scen_name, ResponseTime |-> Round2(FastTicks + 10),
     FleschEase |-> None, FleschKincaidGrade |-> None,
     Advice |-> <<"Scenario not found.">>]

\* the row appended when the scenario lookup fails
SentinelRow(model_name, scen_name) ==
    [Model |-> model_name, Scenario |-> scen_name, ResponseTime |-> 0,
     FleschEase |-> None, FleschKincaidGrade |-> None,
     Advice |-> <<"Scenario not found.">>]

\* the gate in front of the scorer in batch_evaluate
BatchScores(text) == ~Contains(text, ERROR_MARK) /\ text # EmptyText

\* the row appended for a pair whose scenario resolved
ResultRow(model_name, scen_name, answer) ==
    [Model |-> model_name, Scenario |-> scen_name,
     ResponseTime |-> Round2(answer.response_time),
     FleschEase |-> IF BatchScores(answer.advice_text)
                    THEN flesch_reading_ease(answer.advice_text) ELSE None,
     FleschKincaidGrade |-> IF BatchScores(answer.advice_text)
                            THEN flesch_kincaid_grade(answer.advice_text) ELSE None,
     Advice |-> answer.advice_text]

\* NothingSelected that tests the model list alone
NothingSelectedModelsOnly(ms, ss) == ms = << >>

\* the empty-selection guard
NothingSelected(ms, ss) == ms = << >> \/ ss = << >>

BatchStart ==
    /\ mode = "batch"
    /\ bpc = "idle"
    /\ IF NothingSelected(model_display_names, scenario_names)
       THEN /\ bpc' = "returned"
            /\ batch_status' = <<"Please select at least one model and one scenario.">>
            /\ viz_visible' = FALSE
       ELSE /\ bpc' = "loop"
            /\ UNCHANGED << batch_status, viz_visible >>
    /\ UNCHANGED << mode, model_display_names, scenario_names, pair_index, results,
                    client_calls, cancel_at, single_vars, scorer_calls >>

\* the outcome of a call that has not returned yet
Pending == [kind |-> "pending"]

\* what one iteration does once the model lookup has succeeded, up to the
\* dispatch of the blocking call
PairBody(k, model_name, scen_name) ==
    LET model_id == LLM_MODELS_FOR_TESTING[model_name]
        selected_profile == FindProfile(scen_name)
    IN  IF selected_profile = NoProfile
        THEN /\ results' = Append(results, SentinelRow(model_name, scen_name))
             /\ bpc' = "loop"
             /\ UNCHANGED client_calls
        ELSE /\ client_calls' = Append(client_calls,
                    [pair |-> k, model |-> model_id,
                     messages |-> build_prompts(selected_profile),
                     reply |-> Pending])
             /\ bpc' = "calling"
             /\ UNCHANGED results

\* one iteration of the loop over evaluation_pairs, up to the point where it
\* blocks in get_ollama_response_non_stream (or to its end, when it does not)
BatchPair ==
    /\ mode = "batch"
    /\ bpc = "loop"
    /\ pair_index < Len(evaluation_pairs)
    /\ LET k == pair_index + 1
           model_name == evaluation_pairs[k][1]
           scen_name == evaluation_pairs[k][2]
       IN  /\ pair_index' = k
           /\ IF model_name \notin DOMAIN LLM_MODELS_FOR_TESTING
              THEN \* LLM_MODELS_FOR_TESTING[model_name] raises KeyError
                   /\ bpc' = "fault"
                   /\ UNCHANGED << results, client_calls >>
              ELSE PairBody(k, model_name, scen_name)
    /\ UNCHANGED << mode, model_display_names, scenario_names, batch_status,
                    viz_visible, cancel_at, single_vars, scorer_calls >>

\* the blocking call returns: the rest of the iteration, to the appended row
BatchReply ==
    /\ mode = "batch"
    /\ bpc = "calling"
    /\ \E reply \in BlockReplies :
        LET call == client_calls[Len(client_calls)]
            model_name == evaluation_pairs[pair_index][1]
            scen_name == evaluation_pairs[pair_index][2]
            answer == get_ollama_response_non_stream(call.model, reply)
        IN  /\ client_calls' = [client_calls EXCEPT ![Len(client_calls)].reply = reply]
            /\ scorer_calls' =
                    IF BatchScores(answer.advice_text)
                    THEN scorer_calls \cup {answer.advice_text}
                    ELSE scorer_calls
            /\ results' = Append(results, ResultRow(model_name, scen_name, answer))
            /\ bpc' = "loop"
    /\ UNCHANGED << mode, model_display_names, scenario_names, pair_index,
                    batch_status, viz_visible, cancel_at, single_vars >>

\* the loop is exhausted: build the table and return
BatchReturn ==
    /\ mode = "batch"
    /\ bpc = "loop"
    /\ pair_index = Len(evaluation_pairs)
    /\ bpc' = "returned"
    /\ batch_status' = <<"Batch evaluation complete. Ran ", Len(results), " tests.">>
    /\ viz_visible' = TRUE
    /\ UNCHANGED << mode, model_display_names, scenario_names, pair_index, results,
                    client_calls, cancel_at, single_vars, scorer_calls >>

\* cancel_btn.click(fn=None, cancels=[click_event]): the request is noted by
\* the UI toolkit, between two pairs or while a pair's call is in flight;
\* batch_evaluate holds no reference to it
Cancel ==
    /\ mode = "batch"
    /\ bpc \in {"loop", "calling"}
    /\ cancel_at = NotCancelled
    /\ cancel_at' = [taken |-> pair_index, in_flight |-> bpc = "calling"]
    /\ UNCHANGED << mode, model_display_names, scenario_names, bpc, pair_index,
                    results, batch_status, viz_visible, client_calls,
                    single_vars, scorer_calls >>

SingleIdle ==
    /\ model_display_name = ""
    /\ scenario_name = ""
    /\ spc = "start"
    /\ advice_text = EmptyText
    /\ snapshots = << >>
    /\ gen = "unstarted"
    /\ chunks = << >>
    /\ frags = << >>
    /\ consumed = 0
    /\ dispatched = 0

InitBatch ==
    /\ mode = "batch"
    /\ model_display_names \in Selections(ModelNamePool, MaxModels)
    /\ scenario_names \in Selections(ScenarioNamePool, MaxScenarios)
    /\ bpc = "idle"
    /\ pair_index = 0
    /\ results = << >>
    /\ batch_status = << >>
    /\ viz_visible = FALSE
    /\ client_calls = << >>
    /\ cancel_at = NotCancelled
    /\ scorer_calls = {}
    /\ SingleIdle

NextBatch == BatchStart \/ BatchPair \/ BatchReply \/ BatchReturn

SpecBatch == InitBatch /\ [][NextBatch]_vars

NextBatchCancel == BatchStart \/ BatchPair \/ BatchReply \/ BatchReturn \/ Cancel

SpecBatchCancel == InitBatch /\ [][NextBatchCancel]_vars

\* ------------------------------------------- get_ollama_response (stream)
\* what the backend can deliver while a stream is iterated: a chunk with
\* message content, a chunk with an error field, a chunk with neither, or a
\* raised ollama.ResponseError / other Exception (also raised by chat itself)
StreamEvents ==
    {[kind |-> "content", content |-> c] : c \in ChunkContents}
    \cup {[kind |-> "error"], [kind |-> "malformed"],
          [kind |-> "ResponseError"], [kind |-> "Exception"]}

\* the fragments get_ollama_response yields for one event: one or none
StreamChunkYield(model_name, ev) ==
    CASE ev.kind = "content" -> << ev.content >>
      [] ev.kind = "error" ->
            << ERROR_MARK \o <<" Ollama stream error for model '", model_name,
                               "'.\nDetails: ", "chunk['error']">> >>
      [] ev.kind = "ResponseError" ->
            << ERROR_MARK \o <<" Ollama response error for model '", model_name,
                               "'.\nDetails: ", "e.error">> >>
      [] ev.kind = "Exception" ->
            << ERROR_MARK \o <<" Could not connect to the Ollama server. Please ensure it is running.\nDetails: ", "e">> >>
      [] OTHER -> << >>

\* the generator goes on after this event: only after a content chunk or a
\* chunk it passes over
StreamContinues(ev) == ev.kind \in {"content", "malformed"}

\* the deliveries between two resumptions of the generator: events passed over
\* without a yield, then either one event that yields or the end of the stream
Deliveries(model_name, room) ==
    {d \in UNION {[1..n -> StreamEvents] : n \in 0..room} :
        \A i \in 1..(Len(d) - 1) :
            StreamContinues(d[i]) /\ StreamChunkYield(model_name, d[i]) = << >>}

DeliveryYield(model_name, d) ==
    IF d = << >> THEN << >> ELSE StreamChunkYield(model_name, d[Len(d)])

\* next(advice_stream): [delivered, yielded (one fragment or none = exhausted), gen]
GenOutcomes(model_name) ==
    IF gen = "closed"
    THEN {[delivered |-> << >>, yielded |-> << >>, gen |-> "closed"]}
    ELSE {[delivered |-> d,
           yielded |-> DeliveryYield(model_name, d),
           gen |-> IF DeliveryYield(model_name, d) # << >> /\ StreamContinues(d[Len(d)])
                   THEN "open" ELSE "closed"] :
            d \in Deliveries(model_name, MaxChunks - Len(chunks))}

\* ------------------------------------------- generate_and_evaluate_stream
SingleModelInputs == ModelNamePool \cup {""}

SingleScenarioInputs == ScenarioNamePool \cup {""}

Snapshot(profile, advice, stats, prompt) ==
    [profile |-> profile, advice |-> advice, stats |-> stats, prompt |-> prompt]

profile_display(selected_profile) == <<"### ", selected_profile, "**Profile:** ">>

prompt_for_display(selected_profile) ==
    <<"### System Prompt", "system_prompt", "### User Prompt", selected_profile>>

\* the evaluator's test for an error fragment and for a failed final buffer
IsErrorText(text) == Contains(text, ERROR_MARK)

\* ErrorAdvice that appends the error fragment to the buffer
ErrorAdviceAppended(buffer, chunk) == buffer \o chunk

\* the advice text shown when an error fragment is read
ErrorAdvice(buffer, chunk) == chunk

\* lines 56-74: the lookups and the initial snapshot
SingleStart ==
    /\ mode = "single"
    /\ spc = "start"
    /\ IF model_display_name = "" \/ scenario_name = ""
       THEN /\ snapshots' = Append(snapshots,
                    Snapshot(<<"Please select a model and a scenario.">>, EmptyText,
                             [kind |-> "No stats."], << >>))
            /\ spc' = "failed"
       ELSE IF model_display_name \notin DOMAIN LLM_MODELS_FOR_TESTING
       THEN \* LLM_MODELS_FOR_TESTING[model_display_name] raises KeyError
            /\ spc' = "fault"
            /\ UNCHANGED snapshots
       ELSE IF FindProfile(scenario_name) = NoProfile
       THEN /\ snapshots' = Append(snapshots,
                    Snapshot(<<"Error: Profile not found.">>, EmptyText,
                             [kind |-> "Error."], << >>))
            /\ spc' = "failed"
       ELSE /\ snapshots' = Append(snapshots,
                    Snapshot(profile_display(FindProfile(scenario_name)), <<"...">>,
                             [kind |-> "Generating..."],
                             prompt_for_display(FindProfile(scenario_name))))
            /\ spc' = "awaiting"
    /\ UNCHANGED << mode, batch_vars, model_display_name, scenario_name, advice_text,
                    gen, chunks, frags, consumed, dispatched, scorer_calls >>

\* the generator is resumed: ollama.chat is called on the first resumption
Resume(out) ==
    /\ chunks' = chunks \o out.delivered
    /\ gen' = out.gen
    /\ dispatched' = IF gen = "unstarted" THEN dispatched + 1 ELSE dispatched

\* lines 76-82: one iteration of the loop over advice_stream
StreamFragment ==
    /\ mode = "single"
    /\ spc \in {"awaiting", "streaming"}
    /\ \E out \in GenOutcomes(LLM_MODELS_FOR_TESTING[model_display_name]) :
        /\ out.yielded # << >>
        /\ Resume(out)
        /\ LET chunk == out.yielded[1]
               profile == FindProfile(scenario_name)
           IN  /\ frags' = Append(frags, chunk)
               /\ consumed' = consumed + 1
               /\ IF IsErrorText(chunk)
                  THEN /\ advice_text' = ErrorAdvice(advice_text, chunk)
                       /\ snapshots' = Append(snapshots,
                            Snapshot(profile_display(profile), advice_text',
                                     [kind |-> "Error occurred."],
                                     prompt_for_display(profile)))
                       /\ spc' = "failed"
                  ELSE /\ advice_text' = advice_text \o chunk
                       /\ snapshots' = Append(snapshots,
                            Snapshot(profile_display(profile), advice_text',
                                     [kind |-> "Generating..."],
                                     prompt_for_display(profile)))
                       /\ spc' = "streaming"
    /\ UNCHANGED << mode, batch_vars, model_display_name, scenario_name, scorer_calls >>

\* the gate in front of the scorer in generate_and_evaluate_stream
SingleScores(text) == ~IsErrorText(text)

\* lines 76, 84-96: the stream is exhausted; the terminal snapshot
StreamExhausted ==
    /\ mode = "single"
    /\ spc \in {"awaiting", "streaming"}
    /\ \E out \in GenOutcomes(LLM_MODELS_FOR_TESTING[model_display_name]),
          ticks \in {FastTicks, SlowTicks} :
        /\ out.yielded = << >>
        /\ Resume(out)
        /\ LET profile == FindProfile(scenario_name)
           IN  IF SingleScores(advice_text)
               THEN /\ scorer_calls' = scorer_calls \cup {advice_text}
                    /\ snapshots' = Append(snapshots,
                         Snapshot(profile_display(profile), advice_text,
                                  [kind |-> "stats", time |-> Round2(ticks),
                                   ease |-> flesch_reading_ease(advice_text),
                                   grade |-> flesch_kincaid_grade(advice_text)],
                                  prompt_for_display(profile)))
                    /\ UNCHANGED advice_text
               ELSE /\ advice_text' = <<"An error occurred. See 'Stats' box for details.">>
                    /\ snapshots' = Append(snapshots,
                         Snapshot(profile_display(profile), advice_text',
                                  [kind |-> "Generation failed.", time |-> Round2(ticks),
                                   details |-> advice_text],
                                  prompt_for_display(profile)))
                    /\ UNCHANGED scorer_calls
        /\ spc' = "done"
    /\ UNCHANGED << mode, batch_vars, model_display_name, scenario_name, frags, consumed >>

BatchIdle ==
    /\ model_display_names = << >>
    /\ scenario_names = << >>
    /\ bpc = "idle"
    /\ pair_index = 0
    /\ results = << >>
    /\ batch_status = << >>
    /\ viz_visible = FALSE
    /\ client_calls = << >>
    /\ cancel_at = NotCancelled

InitSingle ==
    /\ mode = "single"
    /\ model_display_name \in SingleModelInputs
    /\ scenario_name \in SingleScenarioInputs
    /\ spc = "start"
    /\ advice_text = EmptyText
    /\ snapshots = << >>
    /\ gen = "unstarted"
    /\ chunks = << >>
    /\ frags = << >>
    /\ consumed = 0
    /\ dispatched = 0
    /\ scorer_calls = {}
    /\ BatchIdle

NextSingle == SingleStart \/ StreamFragment \/ StreamExhausted

SpecSingle == InitSingle /\ [][NextSingle]_vars

\* ------------------------------------------------------- the whole program
Init == InitBatch \/ InitSingle

Next ==
    \/ BatchStart \/ BatchPair \/ BatchReply \/ BatchReturn \/ Cancel
    \/ SingleStart \/ StreamFragment \/ StreamExhausted

Spec == Init /\ [][Next]_vars

\* ================================================================= claims
KnownModels(ms) == \A i \in 1..Len(ms) : ms[i] \in DOMAIN LLM_MODELS_FOR_TESTING

KnownScenario(name) == \E i \in 1..Len(HEALTH_PROFILES) : HEALTH_PROFILES[i] = name

BatchReturned ==
    /\ mode = "batch"
    /\ bpc = "returned"
    /\ model_display_names # << >>
    /\ scenario_names # << >>

NM == Len(model_display_names)

NS == Len(scenario_names)

\* the model and the scenario of the k-th pair, models outer, scenarios inner
ModelAt(k) == model_display_names[((k - 1) \div NS) + 1]

ScenarioAt(k) == scenario_names[((k - 1) % NS) + 1]

\* C1: for non-empty M (names of the model catalog) and non-empty S, the
\* returned table has |M|*|S| rows, row k carries the k-th pair of the
\* enumeration with M outer and S inner, every pair of M x S is carried by
\* exactly one row and no row carries a pair outside M x S; the call returns
\* (no fault) for such inputs.
C1_CrossProduct ==
    (mode = "batch" /\ KnownModels(model_display_names)) =>
        /\ bpc # "fault"
        /\ BatchReturned =>
            /\ Len(results) = NM * NS
            /\ \A k \in 1..Len(results) :
                /\ results[k].Model = ModelAt(k)
                /\ results[k].Scenario = ScenarioAt(k)
            /\ \A i \in 1..NM, j \in 1..NS :
                Cardinality({k \in 1..Len(results) :
                    /\ results[k].Model = model_display_names[i]
                    /\ results[k].Scenario = scenario_names[j]}) = 1
            /\ \A k \in 1..Len(results) :
                /\ \E i \in 1..NM : results[k].Model = model_display_names[i]
                /\ \E j \in 1..NS : results[k].Scenario = scenario_names[j]

\* C1 witness: a returned 2 x 2 batch over catalog models
C1_Witness ==
    /\ BatchReturned
    /\ KnownModels(model_display_names)
    /\ NM = 2 /\ NS = 2
    /\ Len(results) = 4
    /\ results[2].Model = results[1].Model
    /\ results[3].Model # results[1].Model

\* the blocking Model Client calls made for pair k
CallsFor(k) == {c \in 1..Len(client_calls) : client_calls[c].pair = k}

\* the scenario names of S that resolve, in input order
Resolving(ss) == SelectSeq(ss, KnownScenario)

\* the rows of the table whose scenario resolves, in table order
ResolvedRows == SelectSeq(results, LAMBDA r : KnownScenario(r.Scenario))

\* C2: with catalog models, a scenario name absent from the catalog gives
\* each of its pairs exactly one row with Advice "Scenario not found.", time 0
\* and both scores undefined, and no Model Client call; the batch still
\* returns |M|*|S| rows, and the rows of the other scenarios are the table of
\* the batch over S without the absent names: the c-th of them is the row
\* computed from the c-th Model Client call, made for its own pair.
C2_FailureIsolation ==
    (BatchReturned /\ KnownModels(model_display_names)) =>
        /\ Len(results) = NM * NS
        /\ \A k \in 1..Len(results) :
            ~KnownScenario(ScenarioAt(k)) =>
                /\ results[k] =
                    [Model |-> ModelAt(k), Scenario |-> ScenarioAt(k),
                     ResponseTime |-> 0, FleschEase |-> None,
                     FleschKincaidGrade |-> None,
                     Advice |-> <<"Scenario not found.">>]
                /\ CallsFor(k) = {}
        /\ \A k \in 1..Len(results) :
            KnownScenario(ScenarioAt(k)) => Cardinality(CallsFor(k)) = 1
        /\ Len(ResolvedRows) = Len(client_calls)
        /\ Len(ResolvedRows) = NM * Len(Resolving(scenario_names))
        /\ \A c \in 1..Len(ResolvedRows) :
            LET call == client_calls[c]
                pair == Product(model_display_names, Resolving(scenario_names))[c]
            IN  /\ call.model = LLM_MODELS_FOR_TESTING[pair[1]]
                /\ call.messages = build_prompts(pair[2])
                /\ ResolvedRows[c] =
                     ResultRow(pair[1], pair[2],
                               get_ollama_response_non_stream(call.model, call.reply))

\* C2 witness: a returned batch in which an absent scenario name comes before
\* a resolving one, whose pair got a text reply from the backend
C2_Witness ==
    /\ BatchReturned
    /\ KnownModels(model_display_names)
    /\ NS = 2
    /\ ~KnownScenario(scenario_names[1])
    /\ KnownScenario(scenario_names[2])
    /\ Len(results) = NM * NS
    /\ results[1].Advice = <<"Scenario not found.">>
    /\ results[2].FleschEase.defined

\* C3: in every row the two scores are both defined or both undefined, and
\* they are undefined exactly when the row's text is empty or starts with
\* the error prefix.  Stated of the rows built from a Model Client response
\* (the rows whose scenario resolves).
C3_ReadabilityGating ==
    \A k \in 1..Len(results) :
        KnownScenario(results[k].Scenario) =>
            /\ results[k].FleschEase.defined = results[k].FleschKincaidGrade.defined
            /\ ~results[k].FleschEase.defined <=>
                  \/ results[k].Advice = EmptyText
                  \/ StartsWith(results[k].Advice, ERROR_MARK)

\* C6: no lookup failure ends a batch run with an unhandled fault; every pair
\* taken, also one whose model name is absent from the catalog, has its row
\* once its iteration is over.
C6_NoLookupFault ==
    mode = "batch" =>
        /\ bpc # "fault"
        /\ bpc # "calling" => Len(results) = pair_index

\* C8: after a cancellation requested between two pairs (no call in flight)
\* no Model Client call is dispatched for a later pair, and the returned
\* table holds exactly the rows of the pairs completed before the request.
C8_CancelStopsDispatch ==
    (mode = "batch" /\ cancel_at # NotCancelled /\ ~cancel_at.in_flight) =>
        /\ \A c \in 1..Len(client_calls) : client_calls[c].pair <= cancel_at.taken
        /\ bpc = "returned" => Len(results) = cancel_at.taken

SingleResolved ==
    /\ mode = "single"
    /\ model_display_name \in DOMAIN LLM_MODELS_FOR_TESTING
    /\ KnownScenario(scenario_name)

SingleEnded == spc \in {"done", "failed"}

\* C4: a single run with resolved names whose stream yielded no fragment
\* starting with the error prefix ends with a last snapshot whose advice
\* text is the concatenation of all fragments, in order.
C4_TerminalConvergence ==
    ( /\ SingleResolved
      /\ SingleEnded
      /\ \A i \in 1..Len(frags) : ~StartsWith(frags[i], ERROR_MARK) ) =>
        snapshots[Len(snapshots)].advice = Concat(frags)

\* C5: once a fragment starting with the error prefix is read, it is the last
\* fragment read and the last the generator was resumed for, the snapshot
\* emitted for it is the last one and its advice text is exactly that
\* fragment, and the run is Failed with status "Error occurred." and no
\* scorer call.
C5_ErrorShortCircuit ==
    mode = "single" =>
        \A i \in 1..Len(frags) :
            StartsWith(frags[i], ERROR_MARK) =>
                /\ i = Len(frags)
                /\ consumed = i
                /\ StreamChunkYield(LLM_MODELS_FOR_TESTING[model_display_name],
                                    chunks[Len(chunks)]) = << frags[i] >>
                /\ Len(snapshots) = i + 1
                /\ snapshots[i + 1].advice = frags[i]
                /\ snapshots[i + 1].stats = [kind |-> "Error occurred."]
                /\ advice_text = frags[i]
                /\ spc = "failed"
                /\ scorer_calls = {}

\* C5 witness: an error fragment read after a non-empty fragment
C5_Witness ==
    /\ mode = "single"
    /\ spc = "failed"
    /\ consumed = 2
    /\ frags[1] = PlainText
    /\ StartsWith(frags[2], ERROR_MARK)
    /\ snapshots[Len(snapshots)].advice = frags[2]

\* C7: a single run whose model name or scenario name is absent from its
\* catalog emits exactly one snapshot and stops Failed, with no request
\* dispatched to the Model Client.
C7_LookupFailure ==
    ( /\ mode = "single"
      /\ spc # "start"
      /\ \/ model_display_name \notin DOMAIN LLM_MODELS_FOR_TESTING
         \/ ~KnownScenario(scenario_name) ) =>
        /\ spc = "failed"
        /\ Len(snapshots) = 1
        /\ dispatched = 0
        /\ gen = "unstarted"

\* C9: both Model Client calls turn every failure origin into text starting
\* with the error prefix: the blocking call's response text (the Advice of
\* the pair's row), and one fragment of the streaming call for every
\* delivery that is not a content chunk, so that no delivery goes without
\* its fragment.
C9_FailuresBecomeErrorText ==
    /\ \A c \in 1..Len(client_calls) :
        client_calls[c].reply.kind \notin {"content", "pending"} =>
            StartsWith(results[client_calls[c].pair].Advice, ERROR_MARK)
    /\ spc \in {"done", "failed"} => Len(frags) = Len(chunks)
    /\ \A i \in 1..Len(chunks) :
        (chunks[i].kind # "content" /\ i <= Len(frags)) =>
            StartsWith(frags[i], ERROR_MARK)

\* C10: the Readability Scorer is never invoked on empty text or on text
\* starting with the error prefix, by either evaluator.
C10_ScorerGate ==
    \A t \in scorer_calls : t # EmptyText /\ ~StartsWith(t, ERROR_MARK)

\* C11: batch_evaluate called with an empty model list (any S) or an empty
\* scenario list (any M, also one naming a model absent from the catalog)
\* returns an empty table with the "nothing selected" status message and the
\* visualizations hidden, having taken no pair, made no Model Client call and
\* no scorer call.
C11_EmptySelectionGuard ==
    ( /\ mode = "batch"
      /\ bpc # "idle"
      /\ model_display_names = << >> \/ scenario_names = << >> ) =>
        /\ bpc = "returned"
        /\ results = << >>
        /\ pair_index = 0
        /\ client_calls = << >>
        /\ scorer_calls = {}
        /\ viz_visible = FALSE
        /\ batch_status = <<"Please select at least one model and one scenario.">>

\* C11 witness: a returned call with two models selected, one of them absent
\* from the catalog, and no scenario
C11_Witness ==
    /\ mode = "batch"
    /\ bpc = "returned"
    /\ Len(model_display_names) = 2
    /\ ~KnownModels(model_display_names)
    /\ scenario_names = << >>
    /\ results = << >>
    /\ batch_status = <<"Please select at least one model and one scenario.">>

====
